---- MODULE Spec2Model ----
(***************************************************************************)
(* Model of submissions/dauom/main.cpp: a memory-mapped input file of      *)
(* "city,product,price" lines is cut into blocks, the blocks are parsed by *)
(* a pool of worker threads into per-worker Result slots, the slots are    *)
(* merged into one Result and ans writes the report.                       *)
(*                                                                         *)
(* Bytes are their ASCII codes, strings are sequences of bytes, file       *)
(* offsets are 0-based as in the source (ByteAt(data, i) is data[i]).      *)
(***************************************************************************)
EXTENDS Integers, Sequences, FiniteSets, TLC

\* ------------------------------------------------------------------ bytes
NUL == 0
NL == 10
CR == 13
SPACE == 32
COMMA == 44
DOT == 46
DIGIT0 == 48
DIGIT9 == 57

\* (long long)4e18, the "no observation yet" value of product_cost and the
\* start value of min_city_cost.  TLC integers are 32 bits wide, so the value
\* is scaled down; it stays above every sum the bounded inputs can produce.
SENTINEL == 2000000000

\* products.resize(5)
TOP_N == 5

\* #define NUM_CITIES 102, the length of city_cost and of both dimensions of
\* product_cost.  Scaled down to the number of distinct city names and of
\* distinct product names in RecordFields, so that the bounded inputs fill
\* the arrays up to their last index.
NUM_CITIES == 2

\* ----------------------------------------------------------------- bounds
MaxRecords == 2
MaxThreads == 2

\* --------------------------------------------------------------- inputs
\* the header lines "c,p,amt" and "city,product,price"
Header == <<99, 44, 112, 44, 97, 109, 116>>
LongHeader == <<99, 105, 116, 121, 44, 112, 114, 111, 100, 117, 99, 116, 44, 112, 114, 105, 99, 101>>

\* block sizes: 8 puts block boundaries on first bytes of records, on their
\* newlines and inside them, 12 inside them, 64 is longer than every input
BlockSizes == {8, 12, 64}
RoundTripBlockSizes == {18, 64}

\* the records the inputs are made of: city, product, price text
\*   A,X,1.50   A,Y,0.5   B,X,1.50   B,X,0.5
RecordFields ==
  {<<<<65>>, <<88>>, <<49, 46, 53, 48>>>>,
   <<<<65>>, <<89>>, <<48, 46, 53>>>>,
   <<<<66>>, <<88>>, <<49, 46, 53, 48>>>>,
   <<<<66>>, <<88>>, <<48, 46, 53>>>>}

RecordTexts ==
  {f[1] \o <<COMMA>> \o f[2] \o <<COMMA>> \o f[3] \o <<NL>> : f \in RecordFields}

RECURSIVE Concat(_)
Concat(ss) == IF ss = <<>> THEN <<>> ELSE Head(ss) \o Concat(Tail(ss))

\* "A,X,1.50 / A,Y,2.00 / B,X,1.00 / B,X,0.50" under the header line
RoundTripInput ==
  LongHeader \o <<NL>>
    \o <<65, 44, 88, 44, 49, 46, 53, 48, 10>>
    \o <<65, 44, 89, 44, 50, 46, 48, 48, 10>>
    \o <<66, 44, 88, 44, 49, 46, 48, 48, 10>>
    \o <<66, 44, 88, 44, 48, 46, 53, 48, 10>>

Inputs ==
  {Header \o <<NL>> \o Concat(rs) :
      rs \in UNION {[1..n -> RecordTexts] : n \in 0..MaxRecords}}

\* ------------------------------------------------------- the mapped file
\* *p for a pointer p = file_data + i.  The bytes between the end of the
\* file and the end of its last page read as zero (mmap, line 58).
ByteAt(data, i) == IF i < Len(data) THEN data[i + 1] ELSE NUL

\* rawmemchr(start, '\n'): the offset of the first newline at or after start.
\* The scan has no bound in the source; every input here ends with a
\* newline, so the scan stops inside the file.
RECURSIVE rawmemchr(_, _)
rawmemchr(data, start) ==
  IF start >= Len(data) \/ ByteAt(data, start) = NL
    THEN start
    ELSE rawmemchr(data, start + 1)

\* ---------------------------------------------------------- Field Decoder
\* consume_str: appends to s up to a NUL, ',' or '\n' and steps over it.
RECURSIVE consume_str(_, _, _)
consume_str(data, start, s) ==
  LET c == ByteAt(data, start) IN
    IF c # NUL /\ c # COMMA /\ c # NL
      THEN consume_str(data, start + 1, Append(s, c))
      ELSE [s |-> s, start |-> start + 1]

\* the two digit loops of consume_float_as_long
RECURSIVE consume_digits(_, _, _, _)
consume_digits(data, start, ans, count) ==
  LET c == ByteAt(data, start) IN
    IF c <= DIGIT9 /\ c >= DIGIT0
      THEN consume_digits(data, start + 1, ans * 10 + c - DIGIT0, count + 1)
      ELSE [ans |-> ans, start |-> start, count |-> count, c |-> c]

\* consume_float_as_long without "if (count == 1) ans *= 10"
consume_float_as_long_no_scale(data, start) ==
  LET ip == consume_digits(data, start, 0, 0)
      s1 == ip.start + 1
  IN  IF ip.c = DOT
        THEN LET fp == consume_digits(data, s1, ip.ans, 0)
                 s2 == fp.start + 1
                 s3 == IF ByteAt(data, s2) = NL THEN s2 + 1 ELSE s2
             IN  [ans |-> fp.ans, start |-> s3]
        ELSE [ans |-> ip.ans, start |-> s1]

consume_float_as_long(data, start) ==
  LET ip == consume_digits(data, start, 0, 0)
      s1 == ip.start + 1
  IN  IF ip.c = DOT
        THEN LET fp == consume_digits(data, s1, ip.ans, 0)
                 a  == IF fp.count = 1 THEN fp.ans * 10 ELSE fp.ans
                 s2 == fp.start + 1
                 s3 == IF ByteAt(data, s2) = NL THEN s2 + 1 ELSE s2
             IN  [ans |-> a, start |-> s3]
        ELSE [ans |-> ip.ans, start |-> s1]

\* ------------------------------------------------------ Entity Dictionary
\* find_or_create without the look-up: every call stores the current size
find_or_create_no_find(id_map, k) ==
  [map |-> [x \in DOMAIN id_map \cup {k} |->
              IF x = k THEN Cardinality(DOMAIN id_map) ELSE id_map[x]],
   id  |-> Cardinality(DOMAIN id_map)]

\* find_or_create: id_map is a function from keys to identifiers.  In
\* id = id_map[k] = id_map.size() the right operand is evaluated first (the
\* order C++17 fixes for an assignment), so the size is read before
\* id_map[k] makes the entry.
find_or_create(id_map, k) ==
  IF k \notin DOMAIN id_map
    THEN [map |-> id_map @@ (k :> Cardinality(DOMAIN id_map)),
          id  |-> Cardinality(DOMAIN id_map)]
    ELSE [map |-> id_map, id |-> id_map[k]]

\* ------------------------------------------------------------------ Result
\* The two arrays hold only the cells that were written; every other cell
\* still has the value the constructor filled in.
EmptyMap == [k \in {} |-> 0]

NewResult ==
  [city_cost |-> EmptyMap, product_cost |-> EmptyMap,
   product_id |-> EmptyMap, city_id |-> EmptyMap]

CityCost(r, cid) == IF cid \in DOMAIN r.city_cost THEN r.city_cost[cid] ELSE 0

ProductCost(r, cid, pid) ==
  IF <<cid, pid>> \in DOMAIN r.product_cost
    THEN r.product_cost[<<cid, pid>>]
    ELSE SENTINEL

Min(a, b) == IF b < a THEN b ELSE a

SetCell(f, k, v) == [x \in DOMAIN f \cup {k} |-> IF x = k THEN v ELSE f[x]]

\* one pass of the loop body of process_chunk on the fields just decoded
add_record(r, city, product, price) ==
  LET c   == find_or_create(r.city_id, city)
      p   == find_or_create(r.product_id, product)
  IN  [city_id      |-> c.map,
       product_id   |-> p.map,
       product_cost |-> SetCell(r.product_cost, <<c.id, p.id>>,
                                Min(ProductCost(r, c.id, p.id), price)),
       city_cost    |-> SetCell(r.city_cost, c.id, CityCost(r, c.id) + price)]

\* process_chunk decoding from its start as it is
chunk_first_no_realign(data, start) == start

\* the realignment at the top of process_chunk
chunk_first(data, start) ==
  (IF ByteAt(data, start) # NL THEN rawmemchr(data, start) ELSE start) + 1

\* while (cur < end) { ... }
RECURSIVE chunk_loop(_, _, _, _)
chunk_loop(r, data, cur, end) ==
  IF cur < end
    THEN LET city    == consume_str(data, cur, <<>>)
             product == consume_str(data, city.start, <<>>)
             price   == consume_float_as_long(data, product.start)
         IN  chunk_loop(add_record(r, city.s, product.s, price.ans),
                        data, price.start, end)
    ELSE r

process_chunk(r, data, start, end) ==
  chunk_loop(r, data, chunk_first(data, start), end)

\* the values cur takes at the head of the loop: the offsets at which this
\* job decodes a record
RECURSIVE chunk_offsets(_, _, _)
chunk_offsets(data, cur, end) ==
  IF cur < end
    THEN LET city    == consume_str(data, cur, <<>>)
             product == consume_str(data, city.start, <<>>)
             price   == consume_float_as_long(data, product.start)
         IN  {cur} \cup chunk_offsets(data, price.start, end)
    ELSE {}

\* ------------------------------------------------------------------ Merger
\* iteration orders of a hash table holding the keys S: the table fixes one,
\* the program does not say which
Perms(S) ==
  {f \in [1..Cardinality(S) -> S] : \A a, b \in DOMAIN f : a # b => f[a] # f[b]}

\* merge_products storing the worker's cell instead of the smaller one
RECURSIVE merge_products_overwrite(_, _, _, _, _)
merge_products_overwrite(mr, r, ncid, lcid, prods) ==
  IF prods = <<>>
    THEN mr
    ELSE LET p == find_or_create(mr.product_id, Head(prods))
             v == ProductCost(r, lcid, r.product_id[Head(prods)])
         IN  merge_products_overwrite(
               [mr EXCEPT !.product_id = p.map,
                          !.product_cost = SetCell(@, <<ncid, p.id>>, v)],
               r, ncid, lcid, Tail(prods))

\* for (auto &pid : r.product_id) { ... } for the city with local id lcid
RECURSIVE merge_products(_, _, _, _, _)
merge_products(mr, r, ncid, lcid, prods) ==
  IF prods = <<>>
    THEN mr
    ELSE LET p == find_or_create(mr.product_id, Head(prods))
             v == Min(ProductCost(mr, ncid, p.id),
                      ProductCost(r, lcid, r.product_id[Head(prods)]))
         IN  merge_products(
               [mr EXCEPT !.product_id = p.map,
                          !.product_cost = SetCell(@, <<ncid, p.id>>, v)],
               r, ncid, lcid, Tail(prods))

\* merge_cities reading the worker's arrays at the global identifier
RECURSIVE merge_cities_same_ids(_, _, _, _)
merge_cities_same_ids(mr, r, cities, prods) ==
  IF cities = <<>>
    THEN mr
    ELSE LET c    == find_or_create(mr.city_id, Head(cities))
             mr1  == [mr EXCEPT
                        !.city_id = c.map,
                        !.city_cost = SetCell(@, c.id,
                                        CityCost(mr, c.id) + CityCost(r, c.id))]
         IN  merge_cities_same_ids(merge_products(mr1, r, c.id, c.id, prods),
                                   r, Tail(cities), prods)

\* for (auto &cid : r.city_id) { ... }
RECURSIVE merge_cities(_, _, _, _)
merge_cities(mr, r, cities, prods) ==
  IF cities = <<>>
    THEN mr
    ELSE LET c    == find_or_create(mr.city_id, Head(cities))
             lcid == r.city_id[Head(cities)]
             mr1  == [mr EXCEPT
                        !.city_id = c.map,
                        !.city_cost = SetCell(@, c.id,
                                        CityCost(mr, c.id) + CityCost(r, lcid))]
         IN  merge_cities(merge_products(mr1, r, c.id, lcid, prods),
                          r, Tail(cities), prods)

\* for (auto &r : results) { ... }; ords[k] gives the iteration orders of the
\* two dictionaries of results[k]
RECURSIVE merge_from(_, _, _, _)
merge_from(mr, rs, ords, k) ==
  IF k > Len(rs)
    THEN mr
    ELSE merge_from(merge_cities(mr, rs[k], ords[k].cities, ords[k].products),
                    rs, ords, k + 1)

merge(rs, ords) == merge_from(NewResult, rs, ords, 1)

RECURSIVE IterOrdersFrom(_, _)
IterOrdersFrom(rs, k) ==
  IF k > Len(rs)
    THEN {<<>>}
    ELSE {<<[cities |-> c, products |-> p]>> \o rest :
            c \in Perms(DOMAIN rs[k].city_id),
            p \in Perms(DOMAIN rs[k].product_id),
            rest \in IterOrdersFrom(rs, k + 1)}

IterOrders(rs) == IterOrdersFrom(rs, 1)

\* ---------------------------------------------------------- Report Builder
\* std::string operator<
RECURSIVE StrLess(_, _)
StrLess(a, b) ==
  IF b = <<>> THEN FALSE
  ELSE IF a = <<>> THEN TRUE
  ELSE IF Head(a) # Head(b) THEN Head(a) < Head(b)
  ELSE StrLess(Tail(a), Tail(b))

\* operator< of pair<long long, string>
PairLess(x, y) == x[1] < y[1] \/ (x[1] = y[1] /\ StrLess(x[2], y[2]))

\* ans_scan without the branch for equal totals
RECURSIVE ans_scan_no_tie_break(_, _, _)
ans_scan_no_tie_break(result, cities, best) ==
  IF cities = <<>>
    THEN best
    ELSE LET name == Head(cities)
             id   == result.city_id[name]
             c    == CityCost(result, id)
             nxt  == IF best.min_city_cost > c
                       THEN [min_city_cost |-> c, city |-> name, city_id |-> id]
                     ELSE best
         IN  ans_scan_no_tie_break(result, Tail(cities), nxt)

\* the city scan of ans, over the cities in iteration order
RECURSIVE ans_scan(_, _, _)
ans_scan(result, cities, best) ==
  IF cities = <<>>
    THEN best
    ELSE LET name == Head(cities)
             id   == result.city_id[name]
             c    == CityCost(result, id)
             nxt  == IF best.min_city_cost > c
                       THEN [min_city_cost |-> c, city |-> name, city_id |-> id]
                     ELSE IF c = best.min_city_cost /\ StrLess(name, best.city)
                       THEN [best EXCEPT !.city = name, !.city_id = id]
                     ELSE best
         IN  ans_scan(result, Tail(cities), nxt)

ans_city(result, cities) ==
  ans_scan(result, cities,
           [min_city_cost |-> SENTINEL, city |-> <<>>, city_id |-> -1])

\* sort(products.begin(), products.end()) on the pairs collected from
\* product_id: the pairs in ascending order
RECURSIVE sort(_)
sort(S) ==
  IF S = {}
    THEN <<>>
    ELSE LET m == CHOOSE x \in S : \A y \in S \ {x} : PairLess(x, y)
         IN  <<m>> \o sort(S \ {m})

\* products.resize(n): cut, or fill up with value-initialised pairs
resize(v, n) ==
  [k \in 1..n |-> IF k <= Len(v) THEN v[k] ELSE <<0, <<>>>>]

\* ans_products with the resize done before the sort
ans_products_cut_first(result, city_id) ==
  LET ps == result.product_id
      v  == [k \in 1..Cardinality(DOMAIN ps) |->
               LET p == CHOOSE x \in DOMAIN ps : ps[x] = k - 1
               IN  <<ProductCost(result, city_id, ps[p]), p>>]
      w  == resize(v, TOP_N)
  IN  sort({w[k] : k \in 1..Len(w)})

ans_products(result, city_id) ==
  resize(sort({<<ProductCost(result, city_id, result.product_id[p]), p>> :
                  p \in DOMAIN result.product_id}),
         TOP_N)

\* "%.2f" of x / 100.0
RECURSIVE Digits(_)
Digits(n) ==
  IF n < 10 THEN <<DIGIT0 + n>> ELSE Digits(n \div 10) \o <<DIGIT0 + (n % 10)>>

Fixed2(x) ==
  Digits(x \div 100) \o <<DOT, DIGIT0 + ((x % 100) \div 10), DIGIT0 + (x % 10)>>

\* fprintf(f, "%s %.2f\n", name, x / 100.0)
print_line(name, x) == name \o <<SPACE>> \o Fixed2(x) \o <<NL>>

RECURSIVE print_products(_)
print_products(v) ==
  IF v = <<>> THEN <<>>
  ELSE print_line(Head(v)[2], Head(v)[1]) \o print_products(Tail(v))

\* the bytes ans writes to the output file
ans(result, cities) ==
  LET w == ans_city(result, cities)
  IN  print_line(w.city, w.min_city_cost)
        \o print_products(ans_products(result, w.city_id))

\* ------------------------------------------------------ Chunk Partitioner
\* chunks_count of process_concurrently for a file of size bytes
chunk_count(size, bsize) == size \div bsize

\* chunk_start and chunk_end of the n-th pass of its for loop
chunk_range(size, bsize, n) ==
  [chunk_start |-> n * bsize,
   chunk_end   |-> IF n + 1 = chunk_count(size, bsize) THEN size
                   ELSE (n + 1) * bsize]

\* ------------------------------------------------------------ the program
VARIABLES
  file_data,         \* MappedFile.file_data (file_size is its length)
  block_size,        \* block_size of process_concurrently
  num_threads,       \* NUM_THREADS
  pc,                \* where main is
  i,                 \* the loop variable of process_concurrently
  jobs,              \* ThreadPool::jobs, each job its captured chunk_start, chunk_end
  should_terminate,  \* ThreadPool::should_terminate
  threads,           \* ThreadPool::threads: per thread, where it is in loop
  thread_id,         \* the id argument each thread's loop was started with
  thread_job,        \* the job a thread took from the queue
  pool_results,      \* ThreadPool::results
  results,           \* the vector results of main
  mr,                \* the Result merge returns
  output,            \* the bytes written to the output file
  queued,            \* history: the jobs passed to queue_job, in order
  begun,             \* history: how often each job was called
  ended,             \* history: how often each job returned
  slot_use,          \* history: <<thread, slot>> for every call of a job
  id_map,            \* a dictionary of its own: the id_map of find_or_create
  calls,             \* history: the find_or_create calls made on id_map
  field,             \* a price field, its terminator and the bytes after it
  cur,               \* the cursor start of consume_float_as_long on field
  price,             \* what consume_float_as_long returned, -1 before the call
  partials,          \* the vector of Results handed to merge on its own
  merged             \* what that call of merge returned

vars ==
  <<file_data, block_size, num_threads, pc, i, jobs, should_terminate, threads,
    thread_id, thread_job, pool_results, results, mr, output, queued, begun,
    ended, slot_use, id_map, calls, field, cur, price, partials, merged>>

\* the variables of the functions run on their own, and those of main
unit_vars == <<id_map, calls, field, cur, price, partials, merged>>

prog_vars ==
  <<file_data, block_size, num_threads, pc, i, jobs, should_terminate, threads,
    thread_id, thread_job, pool_results, results, mr, output, queued, begun,
    ended, slot_use>>

\* no function is run on its own
NoField == [int |-> <<>>, frac |-> <<>>, term |-> <<>>, rest |-> <<>>]

UnitIdle ==
  /\ id_map = [k \in {} |-> 0]
  /\ calls = <<>>
  /\ field = NoField
  /\ cur = 0
  /\ price = -1
  /\ partials = <<>>
  /\ merged = <<>>

file_size == Len(file_data)
chunks_count == chunk_count(file_size, block_size)
Threads == 0..(num_threads - 1)
NoJob == [chunk_start |-> -1, chunk_end |-> -1]

Init ==
  /\ \/ file_data \in Inputs /\ block_size \in BlockSizes
     \/ file_data = RoundTripInput /\ block_size \in RoundTripBlockSizes
  /\ num_threads \in 1..MaxThreads
  /\ pc = "start"
  /\ i = 0
  /\ jobs = <<>>
  /\ should_terminate = FALSE
  /\ threads = <<>>
  /\ thread_id = <<>>
  /\ thread_job = <<>>
  /\ pool_results = <<>>
  /\ results = <<>>
  /\ mr = NewResult
  /\ output = <<>>
  /\ queued = <<>>
  /\ begun = EmptyMap
  /\ ended = EmptyMap
  /\ slot_use = {}
  /\ UnitIdle

\* one more occurrence of k in the count f
Bump(f, k) == SetCell(f, k, IF k \in DOMAIN f THEN f[k] + 1 ELSE 1)

\* every thread started with the id 0
loop_id_shared(t) == 0

\* the id handed to loop by thread(&ThreadPool::loop, this, i)
loop_id(t) == t

\* ThreadPool::start
start ==
  /\ pc = "start"
  /\ threads' = [t \in Threads |-> "wait"]
  /\ thread_id' = [t \in Threads |-> loop_id(t)]
  /\ thread_job' = [t \in Threads |-> NoJob]
  /\ pool_results' = [s \in Threads |-> NewResult]
  /\ pc' = "loop"
  /\ UNCHANGED <<unit_vars, file_data, block_size, num_threads, i, jobs, should_terminate,
                 results, mr, output, queued, begun, ended, slot_use>>

\* the range of the i-th chunk
chunk(n) == chunk_range(file_size, block_size, n)

\* one pass of the for loop up to jobs.push(job) in queue_job, or its exit
queue_job ==
  /\ pc = "loop"
  /\ IF i < chunks_count /\ chunk(i).chunk_start < chunk(i).chunk_end
       THEN /\ jobs' = Append(jobs, chunk(i))
            /\ queued' = Append(queued, chunk(i))
            /\ pc' = "notify_one"
       ELSE /\ pc' = "busy"
            /\ UNCHANGED <<jobs, queued>>
  /\ UNCHANGED <<unit_vars, file_data, block_size, num_threads, i, should_terminate,
                 threads, thread_id, thread_job, pool_results, results, mr,
                 output, begun, ended, slot_use>>

Blocked == {t \in DOMAIN threads : threads[t] = "blocked"}

\* queue_job without the notify_one
notify_one_missing ==
  /\ pc = "notify_one"
  /\ i' = i + 1
  /\ pc' = "loop"
  /\ UNCHANGED <<unit_vars, file_data, block_size, num_threads, jobs, should_terminate,
                 threads, thread_id, thread_job, pool_results, results, mr,
                 output, queued, begun, ended, slot_use>>

\* mutex_condition.notify_one() at the end of queue_job, and ++i
notify_one ==
  /\ pc = "notify_one"
  /\ IF Blocked = {}
       THEN UNCHANGED threads
       ELSE \E t \in Blocked : threads' = [threads EXCEPT ![t] = "wait"]
  /\ i' = i + 1
  /\ pc' = "loop"
  /\ UNCHANGED <<unit_vars, file_data, block_size, num_threads, jobs, should_terminate,
                 thread_id, thread_job, pool_results, results, mr, output,
                 queued, begun, ended, slot_use>>

\* ThreadPool::busy, called by while (thread_pool.busy()) {}
busy ==
  /\ pc = "busy"
  /\ pc' = IF jobs # <<>> THEN "busy" ELSE "stop"
  /\ UNCHANGED <<unit_vars, file_data, block_size, num_threads, i, jobs, should_terminate,
                 threads, thread_id, thread_job, pool_results, results, mr,
                 output, queued, begun, ended, slot_use>>

\* ThreadPool::stop up to notify_all
stop ==
  /\ pc = "stop"
  /\ should_terminate' = TRUE
  /\ threads' = [t \in DOMAIN threads |->
                   IF threads[t] = "blocked" THEN "wait" ELSE threads[t]]
  /\ pc' = "join"
  /\ UNCHANGED <<unit_vars, file_data, block_size, num_threads, i, jobs, thread_id,
                 thread_job, pool_results, results, mr, output, queued, begun,
                 ended, slot_use>>

\* stop without the joins
join_no_wait ==
  /\ pc = "join"
  /\ pc' = "copy"
  /\ UNCHANGED <<unit_vars, file_data, block_size, num_threads, i, jobs, should_terminate,
                 threads, thread_id, thread_job, pool_results, results, mr,
                 output, queued, begun, ended, slot_use>>

\* the joins of ThreadPool::stop and threads.clear()
join ==
  /\ pc = "join"
  /\ \A t \in DOMAIN threads : threads[t] = "exit"
  /\ pc' = "copy"
  /\ UNCHANGED <<unit_vars, file_data, block_size, num_threads, i, jobs, should_terminate,
                 threads, thread_id, thread_job, pool_results, results, mr,
                 output, queued, begun, ended, slot_use>>

\* ThreadPool::loop: the wait on mutex_condition under queue_mutex, then
\* return, or jobs.front() and jobs.pop()
loop_wait(t) ==
  /\ threads[t] = "wait"
  /\ IF ~(jobs # <<>> \/ should_terminate)
       THEN /\ threads' = [threads EXCEPT ![t] = "blocked"]
            /\ UNCHANGED <<jobs, thread_job, begun, slot_use>>
       ELSE IF should_terminate
         THEN /\ threads' = [threads EXCEPT ![t] = "exit"]
              /\ UNCHANGED <<jobs, thread_job, begun, slot_use>>
         ELSE /\ thread_job' = [thread_job EXCEPT ![t] = Head(jobs)]
              /\ jobs' = Tail(jobs)
              /\ threads' = [threads EXCEPT ![t] = "run"]
              /\ begun' = Bump(begun, Head(jobs))
              /\ slot_use' = slot_use \cup {<<t, thread_id[t]>>}
  /\ UNCHANGED <<unit_vars, file_data, block_size, num_threads, pc, i, should_terminate,
                 thread_id, pool_results, results, mr, output, queued, ended>>

\* a wait on a condition variable may return without a notification
loop_wake(t) ==
  /\ threads[t] = "blocked"
  /\ threads' = [threads EXCEPT ![t] = "wait"]
  /\ UNCHANGED <<unit_vars, file_data, block_size, num_threads, pc, i, jobs,
                 should_terminate, thread_id, thread_job, pool_results, results,
                 mr, output, queued, begun, ended, slot_use>>

\* ThreadPool::loop: job(results[id])
loop_job(t) ==
  /\ threads[t] = "run"
  /\ pool_results' =
       [pool_results EXCEPT ![thread_id[t]] =
          process_chunk(@, file_data, thread_job[t].chunk_start,
                        thread_job[t].chunk_end)]
  /\ ended' = Bump(ended, thread_job[t])
  /\ thread_job' = [thread_job EXCEPT ![t] = NoJob]
  /\ threads' = [threads EXCEPT ![t] = "wait"]
  /\ UNCHANGED <<unit_vars, file_data, block_size, num_threads, pc, i, jobs,
                 should_terminate, thread_id, results, mr, output, queued,
                 begun, slot_use>>

\* for (int i = 0; i < NUM_THREADS; i++) results.emplace_back(...)
copy_results ==
  /\ pc = "copy"
  /\ results' = [k \in 1..num_threads |-> pool_results[k - 1]]
  /\ pc' = "merge"
  /\ UNCHANGED <<unit_vars, file_data, block_size, num_threads, i, jobs, should_terminate,
                 threads, thread_id, thread_job, pool_results, mr, output,
                 queued, begun, ended, slot_use>>

\* Result result = merge(results)
do_merge ==
  /\ pc = "merge"
  /\ \E ords \in IterOrders(results) : mr' = merge(results, ords)
  /\ pc' = "ans"
  /\ UNCHANGED <<unit_vars, file_data, block_size, num_threads, i, jobs, should_terminate,
                 threads, thread_id, thread_job, pool_results, results, output,
                 queued, begun, ended, slot_use>>

\* ans(result)
do_ans ==
  /\ pc = "ans"
  /\ \E cities \in Perms(DOMAIN mr.city_id) : output' = ans(mr, cities)
  /\ pc' = "done"
  /\ UNCHANGED <<unit_vars, file_data, block_size, num_threads, i, jobs, should_terminate,
                 threads, thread_id, thread_job, pool_results, results, mr,
                 queued, begun, ended, slot_use>>

Next ==
  \/ start
  \/ queue_job
  \/ notify_one
  \/ busy
  \/ stop
  \/ join
  \/ copy_results
  \/ do_merge
  \/ do_ans
  \/ \E t \in DOMAIN threads : loop_wait(t)
  \/ \E t \in DOMAIN threads : loop_wake(t)
  \/ \E t \in DOMAIN threads : loop_job(t)

Spec == Init /\ [][Next]_vars

\* ------------------------------------------------- what the input says
\* The records of a file as its text states them, read line by line without
\* any chunking.
RecordStarts(data) == {p \in 1..(Len(data) - 1) : data[p] = NL}

LineEnd(data, p) ==
  CHOOSE q \in p..Len(data) :
    /\ q = Len(data) \/ data[q + 1] = NL
    /\ \A x \in p..(q - 1) : data[x + 1] # NL

LineAt(data, p) == SubSeq(data, p + 1, LineEnd(data, p))

RECURSIVE DecValue(_)
DecValue(ds) ==
  IF ds = <<>> THEN 0
  ELSE DecValue(SubSeq(ds, 1, Len(ds) - 1)) * 10 + (ds[Len(ds)] - DIGIT0)

\* a price text digits[.digits] of at most two fractional digits, in hundredths
PriceOf(text) ==
  LET dots == {k \in 1..Len(text) : text[k] = DOT}
      d    == IF dots = {} THEN Len(text) + 1 ELSE CHOOSE k \in dots : TRUE
      frac == SubSeq(text, d + 1, Len(text))
  IN  DecValue(SubSeq(text, 1, d - 1)) * 100
        + (IF Len(frac) = 0 THEN 0
           ELSE IF Len(frac) = 1 THEN DecValue(frac) * 10
           ELSE DecValue(frac))

RecordAt(data, p) ==
  LET line   == LineAt(data, p)
      commas == {k \in 1..Len(line) : line[k] = COMMA}
      c1     == CHOOSE k \in commas : \A m \in commas : k <= m
      c2     == CHOOSE k \in commas : \A m \in commas : k >= m
  IN  [off     |-> p,
       city    |-> SubSeq(line, 1, c1 - 1),
       product |-> SubSeq(line, c1 + 1, c2 - 1),
       price   |-> PriceOf(SubSeq(line, c2 + 1, Len(line)))]

Records(data) == {RecordAt(data, p) : p \in RecordStarts(data)}

RECURSIVE SumPrice(_)
SumPrice(S) ==
  IF S = {} THEN 0
  ELSE LET x == CHOOSE y \in S : TRUE IN x.price + SumPrice(S \ {x})

InputCities(data) == {x.city : x \in Records(data)}
InputPairs(data) == {<<x.city, x.product>> : x \in Records(data)}
InputSum(data, c) == SumPrice({x \in Records(data) : x.city = c})
InputMin(data, c, p) ==
  LET S == {x.price : x \in {y \in Records(data) : y.city = c /\ y.product = p}}
  IN  CHOOSE m \in S : \A n \in S : m <= n

\* a Result read by name
SumByName(r, c) == CityCost(r, r.city_id[c])
MinByName(r, c, p) ==
  IF c \in DOMAIN r.city_id /\ p \in DOMAIN r.product_id
    THEN ProductCost(r, r.city_id[c], r.product_id[p])
    ELSE SENTINEL

\* the offsets at which the job j decodes records
JobOffsets(data, j) ==
  chunk_offsets(data, chunk_first(data, j.chunk_start), j.chunk_end)

RECURSIVE SumCount(_, _)
SumCount(f, K) ==
  IF K = {} THEN 0
  ELSE LET k == CHOOSE x \in K : TRUE IN f[k] + SumCount(f, K \ {k})

\* how many job executions decoded the record at offset p
TimesParsed(p) ==
  SumCount(ended, {j \in DOMAIN ended : p \in JobOffsets(file_data, j)})

ParseOver == pc \in {"copy", "merge", "ans", "done"}

\* C1: once the pool has stopped, every data record of the input has been
\* parsed by exactly one chunk job, also a record that starts at an offset
\* i * block_size.
InvC1_EachRecordParsedOnce ==
  ParseOver => \A p \in RecordStarts(file_data) : TimesParsed(p) = 1

\* C2: at the end of main, the global sum of every city of the input is the
\* sum of its price fields and the global minimum of every (city, product)
\* pair of the input is the least price of that pair.
InvC2_SumsAndMinima ==
  pc = "done" =>
    /\ \A c \in InputCities(file_data) :
          c \in DOMAIN mr.city_id /\ SumByName(mr, c) = InputSum(file_data, c)
    /\ \A cp \in InputPairs(file_data) :
          MinByName(mr, cp[1], cp[2]) = InputMin(file_data, cp[1], cp[2])

\* ------------------------------------------- the same input, one thread
\* The run of the program on data with block size bsize when one thread
\* takes the jobs in queue order.
RECURSIVE SeqChunks(_, _, _, _)
SeqChunks(r, data, bsize, n) ==
  IF n >= chunk_count(Len(data), bsize)
    THEN r
    ELSE LET j == chunk_range(Len(data), bsize, n)
         IN  SeqChunks(process_chunk(r, data, j.chunk_start, j.chunk_end),
                       data, bsize, n + 1)

\* the keys of a dictionary in the order of their identifiers
IdOrder(m) ==
  [k \in 1..Cardinality(DOMAIN m) |-> CHOOSE x \in DOMAIN m : m[x] = k - 1]

SeqResult(data, bsize) ==
  LET r == SeqChunks(NewResult, data, bsize, 0)
  IN  merge(<<r>>, <<[cities |-> IdOrder(r.city_id),
                      products |-> IdOrder(r.product_id)]>>)

SeqOutput(data, bsize) ==
  LET r == SeqResult(data, bsize)
  IN  ans(r, IdOrder(r.city_id))

\* C3: the report written for an input is the report the program writes for
\* the same input under every other block size.
InvC3_ReportSameForEveryBlockSize ==
  pc = "done" =>
    \A b \in BlockSizes \cup RoundTripBlockSizes : output = SeqOutput(file_data, b)

CeilDiv(a, b) == (a + b - 1) \div b

\* C4: when the for loop of process_concurrently is over, ceil(L / B) jobs
\* have been queued, the k-th with the range [k*B, min((k+1)*B, L)); an input
\* shorter than B gave one job covering it all.
InvC4_CeilChunks ==
  pc \notin {"start", "loop", "notify_one"} =>
    /\ Len(queued) = CeilDiv(file_size, block_size)
    /\ \A k \in 1..Len(queued) :
          queued[k] = [chunk_start |-> (k - 1) * block_size,
                       chunk_end   |-> Min(k * block_size, file_size)]

\* ------------------------------------------------------ reading a report
RECURSIVE SplitLines(_, _)
SplitLines(bytes, line) ==
  IF bytes = <<>> THEN (IF line = <<>> THEN <<>> ELSE <<line>>)
  ELSE IF Head(bytes) = NL THEN <<line>> \o SplitLines(Tail(bytes), <<>>)
  ELSE SplitLines(Tail(bytes), Append(line, Head(bytes)))

ReportLines == SplitLines(output, <<>>)

\* "name price" as a report line shows it
LineOf(name, x) == name \o <<SPACE>> \o Fixed2(x)

\* the name a report line starts with
NameOf(line) ==
  SubSeq(line, 1, (CHOOSE k \in 1..Len(line) :
                     line[k] = SPACE /\ \A m \in 1..(k - 1) : line[m] # SPACE) - 1)

PairLeq(x, y) == x = y \/ x[1] < y[1] \/ (x[1] = y[1] /\ StrLess(x[2], y[2]))

\* the city with the least (total, name) pair of a Result
BestCity(r) ==
  CHOOSE c \in DOMAIN r.city_id :
    \A d \in DOMAIN r.city_id :
      PairLeq(<<SumByName(r, c), c>>, <<SumByName(r, d), d>>)

\* the (minimum price, name) pairs of the products observed in city c
Observed(r, c) ==
  {<<MinByName(r, c, p), p>> :
      p \in {q \in DOMAIN r.product_id : MinByName(r, c, q) # SENTINEL}}

Rank(S, x) == Cardinality({y \in S : y # x /\ PairLeq(y, x)})

\* the products of city c in the input, each with its least price
InputObserved(data, c) ==
  {<<InputMin(data, cp[1], cp[2]), cp[2]>> :
      cp \in {q \in InputPairs(data) : q[1] = c}}

\* "B 1.50" and "X 0.50"
RoundTripReport ==
  <<<<66, 32, 49, 46, 53, 48>>, <<88, 32, 48, 46, 53, 48>>>>

\* C5: the report has, after the city line, min(5, k) product lines for the k
\* products observed in the reported city, each one an observed product with
\* its least price; the round-trip input gives "B 1.50" and "X 0.50".
InvC5_ClampedProductLines ==
  pc = "done" =>
    LET lines == ReportLines
        obs   == InputObserved(file_data, NameOf(lines[1]))
    IN  /\ Len(lines) = 1 + Min(TOP_N, Cardinality(obs))
        /\ \A k \in 2..Len(lines) : \E x \in obs : lines[k] = LineOf(x[2], x[1])
        /\ file_data = RoundTripInput => lines = RoundTripReport

\* ----------------------------------------------- the Report Builder alone
\* ans on the Results that main hands it for inputs with up to MaxProducts
\* products in city A and up to one record each for the cities B and C.
MaxProducts == 6

AnsPricesA == {<<>>, <<49, 46, 48, 48>>, <<50, 46, 48, 48>>}
AnsPricesB == {<<>>, <<49, 46, 48, 48>>, <<54, 46, 48, 48>>}

AnsRecord(city, product, text) ==
  IF text = <<>> THEN <<>>
  ELSE city \o <<COMMA>> \o product \o <<COMMA>> \o text \o <<NL>>

AnsInputs ==
  {Header \o <<NL>>
     \o AnsRecord(<<67>>, <<81>>, c)
     \o Concat([k \in 1..MaxProducts |-> AnsRecord(<<65>>, <<79 + k>>, f[k])])
     \o AnsRecord(<<66>>, <<80>>, b) :
     f \in [1..MaxProducts -> AnsPricesA], b \in AnsPricesB, c \in AnsPricesB}

\* the state main is in before ans when one thread ran the one job of a file
\* that is one block long
InitAns ==
  /\ file_data \in AnsInputs
  /\ block_size = Len(file_data)
  /\ num_threads = 1
  /\ pc = "ans"
  /\ i = 1
  /\ jobs = <<>>
  /\ should_terminate = TRUE
  /\ threads = [t \in {0} |-> "exit"]
  /\ thread_id = [t \in {0} |-> loop_id(t)]
  /\ thread_job = [t \in {0} |-> NoJob]
  /\ pool_results = [t \in {0} |-> SeqChunks(NewResult, file_data, block_size, 0)]
  /\ results = <<pool_results[0]>>
  /\ mr = SeqResult(file_data, block_size)
  /\ output = <<>>
  /\ queued = <<chunk(0)>>
  /\ begun = (chunk(0) :> 1)
  /\ ended = (chunk(0) :> 1)
  /\ slot_use = {<<0, 0>>}
  /\ UnitIdle

NextAns == do_ans

SpecAns == InitAns /\ [][NextAns]_vars

\* C6: for a non-empty global aggregate the city line of the report names the
\* city with the least (total, name) pair, with that total, whatever the
\* order in which ans went through the city dictionary.
InvC6_LeastTotalThenName ==
  (pc = "done" /\ DOMAIN mr.city_id # {}) =>
    ReportLines[1] = LineOf(BestCity(mr), SumByName(mr, BestCity(mr)))

\* two cities share the least total and the report names the smaller name,
\* which is not the city that entered the dictionary first
WitC6_TieOnTotal ==
  /\ pc = "done"
  /\ \E c, d \in DOMAIN mr.city_id :
        /\ c = BestCity(mr) /\ d # c
        /\ SumByName(mr, c) = SumByName(mr, d)
        /\ mr.city_id[d] < mr.city_id[c]
        /\ NameOf(ReportLines[1]) = c

\* C7: when the reported city has five or more observed products, the five
\* product lines are its five least (minimum price, name) pairs in ascending
\* order.
InvC7_FiveLeastPairs ==
  LET obs == Observed(mr, NameOf(ReportLines[1])) IN
    (pc = "done" /\ Cardinality(obs) >= TOP_N) =>
      /\ Len(ReportLines) = 1 + TOP_N
      /\ \A k \in 1..TOP_N :
            \E x \in obs : /\ Rank(obs, x) = k - 1
                           /\ ReportLines[k + 1] = LineOf(x[2], x[1])

\* six observed products, two of the five printed ones at the same price
WitC7_MoreThanFiveWithTie ==
  LET obs == Observed(mr, NameOf(ReportLines[1])) IN
    /\ pc = "done"
    /\ Cardinality(obs) > TOP_N
    /\ \E x, y \in obs :
          x # y /\ x[1] = y[1] /\ Rank(obs, x) < TOP_N /\ Rank(obs, y) < TOP_N

\* ------------------------------------------------------------ Worker Pool
\* how often the job j occurs in the history h
Executions(h, j) == IF j \in DOMAIN h THEN h[j] ELSE 0

\* C8: when stop has returned, and so before the slots are copied and before
\* merge, every job passed to queue_job has been called once and has
\* returned once, no job is left in the queue and no thread is inside a job.
InvC8_AllJobsDoneAfterStop ==
  ParseOver =>
    /\ jobs = <<>>
    /\ \A t \in DOMAIN threads : threads[t] = "exit"
    /\ \A k \in 1..Len(queued) :
          Executions(begun, queued[k]) = 1 /\ Executions(ended, queued[k]) = 1
    /\ \A j \in DOMAIN begun : \E n \in 1..Len(queued) : queued[n] = j
    /\ pc # "copy" => results = [k \in 1..num_threads |-> pool_results[k - 1]]

\* stop has returned after two threads shared three or more jobs
WitC8_StoppedAfterSharedWork ==
  /\ pc = "copy"
  /\ Len(queued) >= 3
  /\ \E a, b \in slot_use : a[1] # b[1]

\* C9: a job is only ever run by thread t against slot t, two threads never
\* run against the same slot, and a slot that differs from a fresh Result
\* was written by jobs of its own thread.
InvC9_ThreadOwnsItsSlot ==
  /\ \A k \in slot_use : k[2] = k[1]
  /\ \A t, u \in DOMAIN threads :
        (t # u /\ threads[t] = "run" /\ threads[u] = "run")
           => thread_id[t] # thread_id[u]
  /\ \A s \in DOMAIN pool_results :
        pool_results[s] # NewResult => <<s, s>> \in slot_use

\* two threads are inside a job at once, each on a job that decodes records
WitC9_TwoThreadsRunning ==
  \E t, u \in DOMAIN threads :
    /\ t # u /\ threads[t] = "run" /\ threads[u] = "run"
    /\ JobOffsets(file_data, thread_job[t]) # {}
    /\ JobOffsets(file_data, thread_job[u]) # {}

\* C10: whichever threads took which jobs and in whatever order the jobs
\* returned, the global sums and minima by name and the report are those of
\* the run in which one thread takes the jobs in queue order.
InvC10_ScheduleIndependent ==
  pc = "done" =>
    LET ref == SeqResult(file_data, block_size) IN
      /\ output = SeqOutput(file_data, block_size)
      /\ DOMAIN mr.city_id = DOMAIN ref.city_id
      /\ DOMAIN mr.product_id = DOMAIN ref.product_id
      /\ \A c \in DOMAIN mr.city_id :
            /\ SumByName(mr, c) = SumByName(ref, c)
            /\ \A p \in DOMAIN mr.product_id :
                  MinByName(mr, c, p) = MinByName(ref, c, p)

\* two threads each decoded records and the global identifiers differ from
\* those of the one-thread run
WitC10_OtherIdentifiers ==
  /\ pc = "done"
  /\ \E a, b \in DOMAIN pool_results :
        a # b /\ pool_results[a] # NewResult /\ pool_results[b] # NewResult
  /\ LET ref == SeqResult(file_data, block_size) IN
        mr.city_id # ref.city_id \/ mr.product_id # ref.product_id

\* ------------------------------------------------ find_or_create alone
\* Up to MaxCalls calls of find_or_create on one dictionary that starts
\* empty, with keys from Keys: "A", "B" and "AB".
MaxCalls == 4

Keys == {<<65>>, <<66>>, <<65, 66>>}

\* the state of main before ThreadPool::start
MainAtStart ==
  /\ pc = "start"
  /\ i = 0
  /\ jobs = <<>>
  /\ should_terminate = FALSE
  /\ threads = <<>>
  /\ thread_id = <<>>
  /\ thread_job = <<>>
  /\ pool_results = <<>>
  /\ results = <<>>
  /\ mr = NewResult
  /\ output = <<>>
  /\ queued = <<>>
  /\ begun = EmptyMap
  /\ ended = EmptyMap
  /\ slot_use = {}

\* main before ThreadPool::start on a file of the header alone
Fresh ==
  /\ file_data = Header \o <<NL>>
  /\ block_size = 64
  /\ num_threads = 1
  /\ MainAtStart

InitDict == Fresh /\ UnitIdle

\* one call find_or_create(id_map, k); the history keeps the key, the
\* identifier returned and the size of the dictionary after the call
do_find_or_create ==
  /\ Len(calls) < MaxCalls
  /\ \E k \in Keys :
        LET r == find_or_create(id_map, k)
        IN  /\ id_map' = r.map
            /\ calls' = Append(calls, [k |-> k, id |-> r.id,
                                       size |-> Cardinality(DOMAIN r.map)])
  /\ UNCHANGED <<prog_vars, field, cur, price, partials, merged>>

NextDict == do_find_or_create

SpecDict == InitDict /\ [][NextDict]_vars

\* the keys of the calls before the n-th
KeysBefore(n) == {calls[m].k : m \in 1..(n - 1)}

\* the first call made with the key k
FirstCall(k) ==
  CHOOSE n \in 1..Len(calls) : calls[n].k = k /\ k \notin KeysBefore(n)

\* C11: after any sequence of find_or_create calls on one dictionary the
\* stored identifiers are exactly 0 .. size-1, each key holding the number of
\* distinct keys seen before it; a call with a key already present returns
\* the identifier the key was first given and leaves the size as it was, and
\* the size grows by one on a new key only.
InvC11_DenseFirstSeenIds ==
  LET size == Cardinality(DOMAIN id_map) IN
    /\ DOMAIN id_map = KeysBefore(Len(calls) + 1)
    /\ {id_map[k] : k \in DOMAIN id_map} = 0..(size - 1)
    /\ \A k \in DOMAIN id_map : id_map[k] = Cardinality(KeysBefore(FirstCall(k)))
    /\ \A n \in 1..Len(calls) :
          /\ calls[n].id = calls[FirstCall(calls[n].k)].id
          /\ calls[n].id = Cardinality(KeysBefore(FirstCall(calls[n].k)))
          /\ calls[n].size = Cardinality(KeysBefore(n))
                               + (IF calls[n].k \in KeysBefore(n) THEN 0 ELSE 1)

\* a key is interned again after another key came in between
WitC11_SameKeyAgain ==
  \E m, n \in 1..Len(calls) :
    /\ m + 1 < n
    /\ calls[m].k = calls[n].k
    /\ calls[m + 1].k # calls[m].k
    /\ calls[n].id = calls[m].id
    /\ Cardinality(DOMAIN id_map) = 3

\* ----------------------------------------- consume_float_as_long alone
\* The price fields digits[.digits] with up to MaxIntDigits digits before the
\* dot and up to two after it, ended by "\n" or "\r\n", at the end of the
\* file or with the record "B,Y,1.00" after them.
MaxIntDigits == 2

\* '0', '3' and '5'
PriceDigits == {48, 51, 53}

DigitStrings(lens) == UNION {[1..n -> PriceDigits] : n \in lens}

Terminators == {<<NL>>, <<CR, NL>>}

NextRecord == <<66, 44, 89, 44, 49, 46, 48, 48, 10>>

Fields ==
  {[int |-> a, frac |-> b, term |-> t, rest |-> r] :
      a \in DigitStrings(1..MaxIntDigits),
      b \in {<<>>} \cup DigitStrings(1..2),
      t \in Terminators,
      r \in {<<>>, NextRecord}}

\* the text of a price field, and the bytes start points into
FieldText(f) == f.int \o (IF f.frac = <<>> THEN <<>> ELSE <<DOT>> \o f.frac)
FieldBytes(f) == FieldText(f) \o f.term \o f.rest

InitField ==
  /\ Fresh
  /\ id_map = EmptyMap
  /\ calls = <<>>
  /\ field \in Fields
  /\ cur = 0
  /\ price = -1
  /\ partials = <<>>
  /\ merged = <<>>

\* long long price = consume_float_as_long(cur)
do_consume_float_as_long ==
  /\ price = -1
  /\ LET r == consume_float_as_long(FieldBytes(field), cur)
     IN  price' = r.ans /\ cur' = r.start
  /\ UNCHANGED <<prog_vars, id_map, calls, field, partials, merged>>

NextField == do_consume_float_as_long

SpecField == InitField /\ [][NextField]_vars

\* C12: a field with the integer part n and one fractional digit d gives
\* 100*n + 10*d ("3.5" gives 350), and one with two fractional digits d1 d2
\* gives 100*n + 10*d1 + d2.
InvC12_OneOrTwoFractionDigits ==
  price # -1 =>
    LET n == DecValue(field.int) IN
      /\ Len(field.frac) = 1
           => price = 100 * n + 10 * (field.frac[1] - DIGIT0)
      /\ Len(field.frac) = 2
           => price = 100 * n + 10 * (field.frac[1] - DIGIT0)
                        + (field.frac[2] - DIGIT0)

\* "3.5" was read as 350
WitC12_ThreePointFive ==
  /\ field.int = <<51>> /\ field.frac = <<53>>
  /\ price = 350

\* C13: for every field digits[.digits] of at most two fractional digits,
\* a field without a dot among them, the value returned is the price in
\* hundredths: "n" gives 100*n.
InvC13_PriceInHundredths ==
  price # -1 => price = PriceOf(FieldText(field))

\* C17: after consume_float_as_long the cursor is at the first byte after
\* the terminator, for "\n" and for "\r\n", with and without a fractional
\* part: at the first byte of the next record and not past it.
InvC17_CursorAtNextRecord ==
  price # -1 => cur = Len(FieldText(field)) + Len(field.term)

\* ------------------------------------------------------- array indices
\* the identifiers a dictionary holds
IdsOf(m) == {m[k] : k \in DOMAIN m}

\* the indices of the cells of city_cost and product_cost that were written
CellIndices(r) ==
  DOMAIN r.city_cost
    \cup {x[1] : x \in DOMAIN r.product_cost}
    \cup {x[2] : x \in DOMAIN r.product_cost}

\* process_chunk indexes r.product_cost[cid][pid] and r.city_cost[cid]
chunk_indices(r) == CellIndices(r)

\* merge indexes mr.city_cost[ncid], mr.product_cost[ncid][npid],
\* r.city_cost[cid.second] and r.product_cost[cid.second][pid.second]
merge_indices(rs, m) ==
  CellIndices(m)
    \cup UNION {IdsOf(rs[k].city_id) : k \in DOMAIN rs}
    \cup UNION {IF DOMAIN rs[k].city_id = {} THEN {} ELSE IdsOf(rs[k].product_id) :
                  k \in DOMAIN rs}

\* ans indexes result.city_cost[cid.second] and, for every entry of
\* product_id, result.product_cost[city_id][pid.second]
ans_indices(result, cities) ==
  IdsOf(result.city_id)
    \cup (IF DOMAIN result.product_id = {} THEN {}
          ELSE {ans_city(result, cities).city_id} \cup IdsOf(result.product_id))

\* every index main has used so far
IndicesUsed ==
  UNION {chunk_indices(pool_results[s]) : s \in DOMAIN pool_results}
    \cup (IF pc \in {"ans", "done"} THEN merge_indices(results, mr) ELSE {})
    \cup (IF pc = "done"
            THEN UNION {ans_indices(mr, c) : c \in Perms(DOMAIN mr.city_id)}
            ELSE {})

InputProducts(data) == {x.product : x \in Records(data)}

\* a report line that ends in a price as "%.2f" prints it: a space, digits, a
\* dot and two digits
IsDigit(c) == c >= DIGIT0 /\ c <= DIGIT9

CarriesCost(line) ==
  \E k \in 1..(Len(line) - 4) :
    /\ line[k] = SPACE
    /\ \A m \in (k + 1)..(Len(line) - 3) : IsDigit(line[m])
    /\ line[Len(line) - 2] = DOT
    /\ IsDigit(line[Len(line) - 1]) /\ IsDigit(line[Len(line)])

\* C14: for an input of the header line alone the run ends without an index
\* outside the arrays, and the report has no city line with a name or a cost
\* and no product line with a price.
InvC14_HeaderOnlyNoWinner ==
  (pc = "done" /\ RecordStarts(file_data) = {}) =>
    /\ IndicesUsed \subseteq 0..(NUM_CITIES - 1)
    /\ \A k \in DOMAIN ReportLines : ~CarriesCost(ReportLines[k])

\* C20: for an input with at most NUM_CITIES distinct city names and at most
\* NUM_CITIES distinct product names, every index process_chunk, merge and ans
\* use on city_cost and product_cost is in 0 .. NUM_CITIES-1, in every state.
InvC20_IndicesInRange ==
  (/\ Cardinality(InputCities(file_data)) <= NUM_CITIES
   /\ Cardinality(InputProducts(file_data)) <= NUM_CITIES)
    => IndicesUsed \subseteq 0..(NUM_CITIES - 1)

\* ------------------------------------------- "\r\n" after a whole price
\* "A,X,3\r\nB,Y,1.00\n" under the header line: two cities and two products
CrInput ==
  Header \o <<NL>>
    \o <<65, 44, 88, 44, 51, 13, 10>>
    \o <<66, 44, 89, 44, 49, 46, 48, 48, 10>>

\* 12 and 16 cut the input into two jobs and one, 24 is its length
CrBlockSizes == {12, 16, 24}

InitCr ==
  /\ file_data = CrInput
  /\ block_size \in CrBlockSizes
  /\ num_threads \in 1..MaxThreads
  /\ MainAtStart
  /\ UnitIdle

SpecCr == InitCr /\ [][Next]_vars

\* ------------------------------------------- blocks shorter than the header
\* With 3 and 5 bytes to a block, jobs start inside the header line "c,p,amt".
\* What a job decodes does not depend on the thread that runs it: one thread.
SmallBlockSizes == {3, 5}

InitSmall ==
  /\ file_data \in Inputs
  /\ block_size \in SmallBlockSizes
  /\ num_threads = 1
  /\ MainAtStart
  /\ UnitIdle

SpecSmall == InitSmall /\ [][Next]_vars

\* the offset of the newline that ends the header line
HeaderEnd(data) == CHOOSE p \in 0..(Len(data) - 1) :
                     data[p + 1] = NL /\ \A q \in 0..(p - 1) : data[q + 1] # NL

\* the sum a slot holds for the city c
SlotSum(r, c) == IF c \in DOMAIN r.city_id THEN SumByName(r, c) ELSE 0

RECURSIVE SlotsSum(_, _, _)
SlotsSum(rs, S, c) ==
  IF S = {} THEN 0
  ELSE LET s == CHOOSE x \in S : TRUE
       IN  SlotSum(rs[s], c) + SlotsSum(rs, S \ {s}, c)

\* the prices of the records of city c, each as often as it was decoded
RECURSIVE ParsedSum(_)
ParsedSum(S) ==
  IF S = {} THEN 0
  ELSE LET x == CHOOSE y \in S : TRUE
       IN  x.price * TimesParsed(x.off) + ParsedSum(S \ {x})

\* C15: the header line is never decoded as a record: no job starts to
\* decode at or before the newline of the header, no slot holds a city or a
\* product that is not in a data record, and the sums and minima of the
\* slots come from data records alone.
InvC15_HeaderNeverDecoded ==
  /\ \A j \in DOMAIN begun :
        \A p \in JobOffsets(file_data, j) : p > HeaderEnd(file_data)
  /\ \A s \in DOMAIN pool_results :
        /\ DOMAIN pool_results[s].city_id \subseteq InputCities(file_data)
        /\ DOMAIN pool_results[s].product_id \subseteq InputProducts(file_data)
        /\ \A c \in DOMAIN pool_results[s].city_id :
              \A p \in DOMAIN pool_results[s].product_id :
                 MinByName(pool_results[s], c, p) # SENTINEL
                   => \E x \in Records(file_data) :
                        /\ x.city = c /\ x.product = p
                        /\ x.price = MinByName(pool_results[s], c, p)
  /\ ParseOver =>
        \A c \in InputCities(file_data) :
           SlotsSum(pool_results, DOMAIN pool_results, c)
             = ParsedSum({x \in Records(file_data) : x.city = c})

\* a job that starts inside the header line has run and decoded a record
WitC15_JobStartsInHeader ==
  \E j \in DOMAIN ended :
    /\ 0 < j.chunk_start /\ j.chunk_start < HeaderEnd(file_data)
    /\ JobOffsets(file_data, j) # {}
    /\ \E s \in DOMAIN pool_results : pool_results[s] # NewResult

\* ------------------------------------------- records across a boundary
\* the record at offset p has its first byte before a boundary n * block_size
\* and its newline at or after it
Straddles(p) ==
  \E n \in 1..(file_size \div block_size) :
    p < n * block_size /\ n * block_size <= LineEnd(file_data, p)

\* C16: a record that lies across a block boundary is decoded exactly once,
\* by the job whose nominal range holds its first byte, and by no later job.
InvC16_StraddlingRecordOnce ==
  ParseOver =>
    \A p \in RecordStarts(file_data) :
      Straddles(p) =>
        /\ TimesParsed(p) = 1
        /\ \A j \in DOMAIN ended :
              p \in JobOffsets(file_data, j)
                => j.chunk_start = (p \div block_size) * block_size

\* ------------------------------------------------------------ merge alone
\* merge on up to MaxPartials Results, each what process_chunk leaves after
\* up to MaxPartialRecords of the records A,X,1.50  B,X,0.50  B,Y,1.50.
MaxPartials == 2
MaxPartialRecords == 2

MergeRecords ==
  {<<<<65>>, <<88>>, 150>>, <<<<66>>, <<88>>, 50>>, <<<<66>>, <<89>>, 150>>}

\* the loop body of process_chunk on the records recs, in order
RECURSIVE add_records(_, _)
add_records(r, recs) ==
  IF recs = <<>> THEN r
  ELSE add_records(add_record(r, Head(recs)[1], Head(recs)[2], Head(recs)[3]),
                   Tail(recs))

Partials ==
  {add_records(NewResult, recs) :
      recs \in UNION {[1..n -> MergeRecords] : n \in 0..MaxPartialRecords}}

InitMerge ==
  /\ Fresh
  /\ id_map = EmptyMap
  /\ calls = <<>>
  /\ field = NoField
  /\ cur = 0
  /\ price = -1
  /\ partials \in UNION {[1..n -> Partials] : n \in 1..MaxPartials}
  /\ merged = <<>>

\* Result result = merge(results) on the vector partials
do_merge_alone ==
  /\ merged = <<>>
  /\ \E ords \in IterOrders(partials) : merged' = <<merge(partials, ords)>>
  /\ UNCHANGED <<prog_vars, id_map, calls, field, cur, price, partials>>

NextMerge == do_merge_alone

SpecMerge == InitMerge /\ [][NextMerge]_vars

\* the least of the cells the Results rs hold for the pair (c, p)
RECURSIVE SlotsMin(_, _, _, _)
SlotsMin(rs, S, c, p) ==
  IF S = {} THEN SENTINEL
  ELSE LET s == CHOOSE x \in S : TRUE
       IN  Min(MinByName(rs[s], c, p), SlotsMin(rs, S \ {s}, c, p))

NamesOf(rs, dict) == UNION {DOMAIN rs[k][dict] : k \in DOMAIN rs}

\* C18: the Result merge returns has, for every city name of a partial, the
\* sum of the partials' sums for that name and, for every city name and
\* product name, the least of the partials' cells for the pair, the sentinel
\* when no partial has the pair; it holds no other name.
InvC18_MergeByName ==
  merged # <<>> =>
    LET g == merged[1] IN
      /\ DOMAIN g.city_id = NamesOf(partials, "city_id")
      /\ DOMAIN g.product_id \subseteq NamesOf(partials, "product_id")
      /\ \A c \in DOMAIN g.city_id :
            /\ SumByName(g, c) = SlotsSum(partials, DOMAIN partials, c)
            /\ \A p \in NamesOf(partials, "product_id") :
                  MinByName(g, c, p) = SlotsMin(partials, DOMAIN partials, c, p)

\* two partials hold the same city under different local identifiers, and
\* one of them under an identifier that is not the global one
WitC18_IdsTranslated ==
  /\ merged # <<>>
  /\ \E a, b \in DOMAIN partials : \E c \in DOMAIN merged[1].city_id :
        /\ c \in DOMAIN partials[a].city_id /\ c \in DOMAIN partials[b].city_id
        /\ partials[a].city_id[c] # partials[b].city_id[c]
        /\ partials[b].city_id[c] # merged[1].city_id[c]
        /\ partials[a].city_cost # partials[b].city_cost

\* ------------------------------------------------------- fair scheduling
\* The runs on the header line and up to MaxRecords records "A,X,1.50" with
\* blocks of 8 bytes (one job more than records) and of 64 (no job).
LiveInputs ==
  {Header \o <<NL>> \o Concat([k \in 1..n |-> <<65, 44, 88, 44, 49, 46, 53, 48, 10>>]) :
      n \in 0..MaxRecords}

LiveBlockSizes == {8, 64}

InitLive ==
  /\ file_data \in LiveInputs
  /\ block_size \in LiveBlockSizes
  /\ num_threads \in 1..MaxThreads
  /\ MainAtStart
  /\ UnitIdle

\* the steps of the thread of main
MainStep ==
  \/ start
  \/ queue_job
  \/ notify_one
  \/ busy
  \/ stop
  \/ join
  \/ copy_results
  \/ do_merge
  \/ do_ans

\* Every thread that can take a step takes one in the end: the thread of
\* main, each pool thread when it holds the mutex to test the wait condition,
\* and each pool thread inside a job.  loop_job(t) is enabled exactly while
\* threads[t] = "run" and no other step ends that, so weak fairness of
\* loop_job(t) is the formula that thread t is again and again not inside a
\* job.  A blocked thread is woken by a notify only: that a wait may return on
\* its own (loop_wake) is not relied on.
Fairness ==
  /\ WF_vars(MainStep)
  /\ \A t \in 0..(MaxThreads - 1) :
        /\ WF_vars(t \in DOMAIN threads /\ loop_wait(t))
        /\ []<>(t \in DOMAIN threads => threads[t] # "run")

SpecLive == InitLive /\ [][Next]_vars /\ Fairness

\* C19: under fair scheduling every run comes to the state in which stop has
\* returned: the busy() spin of process_concurrently has seen an empty
\* queue, every job passed to queue_job has been taken from the queue and
\* has run, and every pool thread is over.
LiveC19_PoolDrainsAndStops ==
  <>(/\ pc = "copy"
     /\ jobs = <<>>
     /\ \A t \in DOMAIN threads : threads[t] = "exit"
     /\ \A k \in 1..Len(queued) :
           Executions(begun, queued[k]) = 1 /\ Executions(ended, queued[k]) = 1)

\* a job is in the queue, not yet notified, while both threads are blocked
\* in the wait
WitC19_JobQueuedWhileAllBlocked ==
  /\ pc = "notify_one"
  /\ jobs # <<>>
  /\ num_threads = 2
  /\ \A t \in DOMAIN threads : threads[t] = "blocked"

====
